---- MODULE Spec2Model ----
(***************************************************************************)
(* State machine of the transaction core of dealtrail:                     *)
(*   src/ingest/state.py        TaskTemplate, State, StateRegistry         *)
(*   src/ingest/task.py         TaskStatus, Task                           *)
(*   src/ingest/transaction.py  StateTransition, Transaction               *)
(*                                                                         *)
(* Optional[...] values are sequences: None is <<>> and a present value v  *)
(* is <<v>>.  State objects live in a heap indexed by object number, so    *)
(* that a reference (current_state, parent, a registry entry) is distinct  *)
(* from the name of the State it points to.  uuid4() is a fresh counter,   *)
(* datetime.now() reads the clock variable now.                            *)
(***************************************************************************)
EXTENDS Integers, Sequences, FiniteSets, TLC

\* ------------------------------------------------------------------ bounds
MaxHistory == 2        \* longest state_history explored
MaxTasks == 3          \* most tasks a transaction holds
MaxTime == 1           \* last instant of the clock
MaxLinks == 2          \* most entries over all children lists

\* ------------------------------------------------------- Optional values
None == <<>>

Some(v) == <<v>>

\* Python truthiness of an Optional[str]: None and "" are both falsy.
TruthyStr(opt) == opt # None /\ opt[1] # ""

\* ------------------------------------------------------------ TaskStatus
PENDING == "PENDING"

IN_PROGRESS == "IN_PROGRESS"

COMPLETED == "COMPLETED"

BLOCKED == "BLOCKED"

TaskStatus == {PENDING, IN_PROGRESS, COMPLETED, BLOCKED}

\* TaskStatus.<member>.value
StatusValue(s) ==
    CASE s = PENDING -> "pending"
      [] s = IN_PROGRESS -> "in_progress"
      [] s = COMPLETED -> "completed"
      [] s = BLOCKED -> "blocked"

\* TaskStatus(<value>)
StatusOfValue(v) == CHOOSE s \in TaskStatus : StatusValue(s) = v

\* ------------------------------------------------- string conversions
\* datetime.isoformat() / datetime.fromisoformat()
isoformat(t) == [iso |-> t]

fromisoformat(s) == s.iso

\* str(UUID) / UUID(str)
UuidStr(u) == [hex |-> u]

UuidOfStr(s) == s.hex

\* ---------------------------------------------------------- TaskTemplate
TaskTemplate(title, description, assignee, days, deps) ==
    [title |-> title, description |-> description, assignee |-> assignee,
     days_until_due |-> days, dependencies |-> deps, metadata |-> "{}"]

\* ---------------------------------------------------------------- State
State(name, display, allowed, templates) ==
    [name |-> name, display_name |-> display, description |-> "",
     parent |-> None, children |-> <<>>, allowed_transitions |-> allowed,
     task_templates |-> templates, metadata |-> "{}"]

\* The State objects the configuration loader can build.  Objects 1..4 are
\* registered at startup; object 5 is a second definition of "new_listing"
\* that a later register() call can put in place of object 1.
StateConfig ==
    <<State("new_listing", "New Listing", {"under_contract", "new_listing"},
            <<TaskTemplate("Photos", "Take photos", None, None, <<>>)>>),
      State("under_contract", "Under Contract",
            {"pending_inspection", "cancelled", "new_listing"},
            <<TaskTemplate("Repair", "Fix findings", Some("agent"), None,
                           <<"Photos", "Inspect">>),
              TaskTemplate("Inspect", "Order inspection", None, Some(1), <<>>)>>),
      State("cancelled", "Cancelled", {},
            <<TaskTemplate("Refund", "Return deposit", None, Some(0),
                           <<"Release", "Inspect", "Notify">>),
              TaskTemplate("Notify", "Tell parties", None, None, <<>>),
              TaskTemplate("Release", "Release escrow", None, None, <<>>)>>),
      State("", "Unnamed", {"new_listing"}, <<>>),
      State("new_listing", "New Listing (relisted)", {"cancelled"},
            <<TaskTemplate("Photos", "Take photos", None, None, <<>>),
              TaskTemplate("Photos", "Retake photos", None, Some(0), <<>>)>>)>>

StateObjs == DOMAIN StateConfig

\* Objects the configuration loader registers before any Transaction exists.
StartupObjs == {1, 2, 3, 4}

\* Names a caller can pass; "pending_inspection" is never registered.
StateNames == {"new_listing", "under_contract", "cancelled", "",
               "pending_inspection"}

Notes == {"", "offer accepted"}

\* ----------------------------------------------------------------- Task
\* Task(...) as the dataclass constructor fills it: status PENDING,
\* created_at = datetime.now(), completed_at / due_date None, no dependencies.
Task(id, title, description, assignee, metadata, t) ==
    [id |-> id, title |-> title, description |-> description,
     status |-> PENDING, created_at |-> t, completed_at |-> None,
     assignee |-> assignee, due_date |-> None, dependencies |-> <<>>,
     metadata |-> metadata]

\* Mutant of mark_in_progress: the status is set whatever it was.
mark_in_progress_Unconditional(task) == [task EXCEPT !.status = IN_PROGRESS]

\* Mutant of mark_in_progress: a BLOCKED task is started as well.
mark_in_progress_FromBlocked(task) ==
    IF task.status \in {PENDING, BLOCKED}
    THEN [task EXCEPT !.status = IN_PROGRESS] ELSE task

\* Task.mark_in_progress
mark_in_progress(task) ==
    IF task.status = PENDING THEN [task EXCEPT !.status = IN_PROGRESS]
    ELSE task

\* Task.mark_completed
mark_completed(task, t) ==
    [task EXCEPT !.status = COMPLETED, !.completed_at = Some(t)]

\* Task.mark_blocked
mark_blocked(task) == [task EXCEPT !.status = BLOCKED]

\* Mutant of is_blocked_by_dependencies: only a PENDING dependency blocks.
is_blocked_by_pending(task, all_tasks) ==
    \E i \in 1..Len(task.dependencies) :
        /\ task.dependencies[i] \in DOMAIN all_tasks
        /\ all_tasks[task.dependencies[i]].status = PENDING

\* Mutant of is_blocked_by_dependencies: a dependency that all_tasks lacks
\* blocks as well.
is_blocked_by_missing(task, all_tasks) ==
    \E i \in 1..Len(task.dependencies) :
        \/ task.dependencies[i] \notin DOMAIN all_tasks
        \/ all_tasks[task.dependencies[i]].status # COMPLETED

\* Task.is_blocked_by_dependencies: all_tasks.get(dep_id) is None for an id
\* that is not a key, and such a dependency does not block.
is_blocked_by_dependencies(task, all_tasks) ==
    \E i \in 1..Len(task.dependencies) :
        /\ task.dependencies[i] \in DOMAIN all_tasks
        /\ all_tasks[task.dependencies[i]].status # COMPLETED

\* Task.can_start
can_start(task, all_tasks) == ~is_blocked_by_dependencies(task, all_tasks)

\* Task.to_dict
Task_to_dict(task) ==
    [id |-> UuidStr(task.id), title |-> task.title,
     description |-> task.description, status |-> StatusValue(task.status),
     created_at |-> isoformat(task.created_at),
     completed_at |-> IF task.completed_at # None
                      THEN Some(isoformat(task.completed_at[1])) ELSE None,
     assignee |-> task.assignee,
     due_date |-> IF task.due_date # None
                  THEN Some(isoformat(task.due_date[1])) ELSE None,
     dependencies |-> [i \in 1..Len(task.dependencies) |->
                          UuidStr(task.dependencies[i])],
     metadata |-> task.metadata]

\* Task.from_dict
Task_from_dict(data) ==
    [id |-> UuidOfStr(data.id), title |-> data.title,
     description |-> data.description, status |-> StatusOfValue(data.status),
     created_at |-> fromisoformat(data.created_at),
     completed_at |-> IF data.completed_at # None
                      THEN Some(fromisoformat(data.completed_at[1])) ELSE None,
     assignee |-> data.assignee,
     due_date |-> IF data.due_date # None
                  THEN Some(fromisoformat(data.due_date[1])) ELSE None,
     dependencies |-> [i \in 1..Len(data.dependencies) |->
                          UuidOfStr(data.dependencies[i])],
     metadata |-> data.metadata]

\* ------------------------------------------------------ State / registry
\* Mutant of can_transition_to: the membership test is skipped.
can_transition_to_Unchecked(state, target_state_name) == TRUE

\* State.can_transition_to
can_transition_to(state, target_state_name) ==
    target_state_name \in state.allowed_transitions

\* StateRegistry.get
RegistryGet(reg, name) == IF name \in DOMAIN reg THEN reg[name] ELSE None

\* StateRegistry.register
RegistryRegister(reg, heap, o) == [reg EXCEPT ![heap[o].name] = Some(o)]

\* ------------------------------------------------------ StateTransition
StateTransition(t, from_state, to_state, notes) ==
    [timestamp |-> t, from_state |-> from_state, to_state |-> to_state,
     notes |-> notes, metadata |-> "{}"]

\* StateTransition.to_dict
StateTransition_to_dict(tr) ==
    [timestamp |-> isoformat(tr.timestamp), from_state |-> tr.from_state,
     to_state |-> tr.to_state, notes |-> tr.notes, metadata |-> tr.metadata]

\* StateTransition.from_dict
StateTransition_from_dict(data) ==
    [timestamp |-> fromisoformat(data.timestamp),
     from_state |-> data.from_state, to_state |-> data.to_state,
     notes |-> data.notes, metadata |-> data.metadata]

\* ---------------------------------------------------------- Transaction
\* uuid4(): an id no task of the transaction has.  Tasks are never removed,
\* so the ids in use are 1..Cardinality(DOMAIN tasks).
uuid4(tks) == Cardinality(DOMAIN tks) + 1

\* Mutant of Instantiate: a template whose title is already in the mapping
\* reuses that task's id instead of getting a fresh one.
RECURSIVE InstantiateByTitle(_, _, _, _, _)
InstantiateByTitle(templates, i, tks, template_to_task, t) ==
    IF i > Len(templates)
    THEN [tasks |-> tks, template_to_task |-> template_to_task]
    ELSE LET template == templates[i]
             id == IF template.title \in DOMAIN template_to_task
                   THEN template_to_task[template.title] ELSE uuid4(tks)
             task == Task(id, template.title, template.description,
                          template.assignee, template.metadata, t)
         IN  InstantiateByTitle(templates, i + 1, (id :> task) @@ tks,
                                (template.title :> id) @@ template_to_task, t)

\* Mutant of Instantiate: the due date is set only when days_until_due is
\* truthy, so a template with 0 days gets none.
RECURSIVE InstantiateTruthyDays(_, _, _, _, _)
InstantiateTruthyDays(templates, i, tks, template_to_task, t) ==
    IF i > Len(templates)
    THEN [tasks |-> tks, template_to_task |-> template_to_task]
    ELSE LET template == templates[i]
             id == uuid4(tks)
             task == Task(id, template.title, template.description,
                          template.assignee, template.metadata, t)
             dated == IF /\ template.days_until_due # None
                         /\ template.days_until_due[1] # 0
                      THEN [task EXCEPT !.due_date =
                               Some(t + template.days_until_due[1])]
                      ELSE task
         IN  InstantiateTruthyDays(templates, i + 1, (id :> dated) @@ tks,
                                   (template.title :> id) @@ template_to_task, t)

\* First loop of _create_tasks_from_templates: one Task per template, its
\* due date set when days_until_due is given, the title -> id mapping
\* overwritten by a later template of the same title.
RECURSIVE Instantiate(_, _, _, _, _)
Instantiate(templates, i, tks, template_to_task, t) ==
    IF i > Len(templates)
    THEN [tasks |-> tks, template_to_task |-> template_to_task]
    ELSE LET template == templates[i]
             id == uuid4(tks)
             task == Task(id, template.title, template.description,
                          template.assignee, template.metadata, t)
             dated == IF template.days_until_due # None
                      THEN [task EXCEPT !.due_date =
                               Some(t + template.days_until_due[1])]
                      ELSE task
         IN  Instantiate(templates, i + 1, (id :> dated) @@ tks,
                         (template.title :> id) @@ template_to_task, t)

\* Mutant of ResolveNames: the resolved ids are collected in reverse order.
RECURSIVE ResolveNamesReversed(_, _, _)
ResolveNamesReversed(names, j, template_to_task) ==
    IF j > Len(names) THEN <<>>
    ELSE ResolveNamesReversed(names, j + 1, template_to_task)
         \o (IF names[j] \in DOMAIN template_to_task
             THEN <<template_to_task[names[j]]>> ELSE <<>>)

\* Inner loop of the second pass: append the id of every dependency name
\* that the mapping knows, in the order the template names them.
RECURSIVE ResolveNames(_, _, _)
ResolveNames(names, j, template_to_task) ==
    IF j > Len(names) THEN <<>>
    ELSE (IF names[j] \in DOMAIN template_to_task
          THEN <<template_to_task[names[j]]>> ELSE <<>>)
         \o ResolveNames(names, j + 1, template_to_task)

\* Second loop of _create_tasks_from_templates.
RECURSIVE WireDependencies(_, _, _, _)
WireDependencies(templates, i, tks, template_to_task) ==
    IF i > Len(templates) THEN tks
    ELSE LET template == templates[i]
             task_id == template_to_task[template.title]
             wired == [tks EXCEPT ![task_id].dependencies =
                          @ \o ResolveNames(template.dependencies, 1,
                                            template_to_task)]
         IN  WireDependencies(templates, i + 1,
                 IF template.dependencies # <<>> THEN wired ELSE tks,
                 template_to_task)

\* Mutant of create_tasks_from_templates: the title -> id mapping starts
\* from the tasks the transaction already holds instead of empty.
create_tasks_from_templates_Seeded(state, tks, t) ==
    LET titles == {tks[id].title : id \in DOMAIN tks}
        seed == [title \in titles |->
                    CHOOSE id \in DOMAIN tks : tks[id].title = title]
        pass1 == Instantiate(state.task_templates, 1, tks, seed, t)
    IN  WireDependencies(state.task_templates, 1, pass1.tasks,
                         pass1.template_to_task)

\* One pass that wires each task as soon as it is created, from the titles
\* seen so far.
RECURSIVE InstantiateAndWire(_, _, _, _, _)
InstantiateAndWire(templates, i, tks, template_to_task, t) ==
    IF i > Len(templates) THEN tks
    ELSE LET template == templates[i]
             id == uuid4(tks)
             task == [Task(id, template.title, template.description,
                           template.assignee, template.metadata, t)
                         EXCEPT !.dependencies =
                             ResolveNames(template.dependencies, 1,
                                          template_to_task)]
         IN  InstantiateAndWire(templates, i + 1, (id :> task) @@ tks,
                                (template.title :> id) @@ template_to_task, t)

\* Mutant of create_tasks_from_templates: a single pass, so a name resolves
\* only when its template comes earlier in the list.
create_tasks_from_templates_SinglePass(state, tks, t) ==
    InstantiateAndWire(state.task_templates, 1, tks, <<>>, t)

\* Mutant of create_tasks_from_templates: the batch is built in a new dict
\* that becomes tasks, so the tasks held before are gone or replaced.
create_tasks_from_templates_Replacing(state, tks, t) ==
    LET pass1 == Instantiate(state.task_templates, 1, <<>>, <<>>, t)
    IN  WireDependencies(state.task_templates, 1, pass1.tasks,
                         pass1.template_to_task)

\* Transaction._create_tasks_from_templates
create_tasks_from_templates(state, tks, t) ==
    LET pass1 == Instantiate(state.task_templates, 1, tks, <<>>, t)
    IN  WireDependencies(state.task_templates, 1, pass1.tasks,
                         pass1.template_to_task)

\* Mutant of get_pending_tasks: dependencies are not looked at.
get_pending_tasks_ByStatus(tks) ==
    {id \in DOMAIN tks : tks[id].status = PENDING}

\* Transaction.get_pending_tasks (the ids of the tasks it returns)
get_pending_tasks(tks) ==
    {id \in DOMAIN tks : tks[id].status = PENDING /\ can_start(tks[id], tks)}

\* Mutant of Rejected: a transaction without a current state is validated
\* too, and fails.
RejectedWithoutCurrent(cur, heap, target_state_name) ==
    \/ cur = None
    \/ ~can_transition_to(heap[cur[1]], target_state_name)

\* Mutant of Rejected: no move is ever rejected.
RejectedNever(cur, heap, target_state_name) == FALSE

\* The validation of transition_to (lines 129-132): TRUE when the move is
\* rejected.
Rejected(cur, heap, target_state_name) ==
    /\ cur # None
    /\ ~can_transition_to(heap[cur[1]], target_state_name)

\* Mutant of RecordTransition: from_state is never filled in.
RecordTransitionNoFrom(cur, heap, target_state_name, notes, t) ==
    StateTransition(t, None, target_state_name, notes)

\* Mutant of RecordTransition: from_state is the state being entered.
RecordTransitionFromTarget(cur, heap, target_state_name, notes, t) ==
    StateTransition(t, Some(target_state_name), target_state_name, notes)

\* The StateTransition that transition_to records.
RecordTransition(cur, heap, target_state_name, notes, t) ==
    StateTransition(t, IF cur # None THEN Some(heap[cur[1]].name) ELSE None,
                    target_state_name, notes)

\* Mutant of RecordInHistory: the newest entry is put first.
RecordInHistoryFirst(history, transition) == <<transition>> \o history

\* self.state_history.append(transition)
RecordInHistory(history, transition) == Append(history, transition)

\* Transaction.to_dict (id, property_address, property_metadata, created_at
\* and metadata are set by the constructor and written by no operation).
Transaction_to_dict(cur, history, tks, heap) ==
    [current_state |-> IF cur # None THEN Some(heap[cur[1]].name) ELSE None,
     state_history |-> [i \in 1..Len(history) |->
                           StateTransition_to_dict(history[i])],
     tasks |-> [k \in {UuidStr(id) : id \in DOMAIN tks} |->
                   Task_to_dict(tks[UuidOfStr(k)])]]

\* Transaction.from_dict: current_state is looked up in the registry only
\* when the stored name is truthy.
Transaction_from_dict(data, reg) ==
    [current_state |-> IF TruthyStr(data.current_state)
                       THEN RegistryGet(reg, data.current_state[1])
                       ELSE None,
     state_history |-> [i \in 1..Len(data.state_history) |->
                           StateTransition_from_dict(data.state_history[i])],
     tasks |-> [id \in {UuidOfStr(k) : k \in DOMAIN data.tasks} |->
                   Task_from_dict(data.tasks[UuidStr(id)])]]

\* --------------------------------------------------- State serialization
Range(q) == {q[i] : i \in DOMAIN q}

\* list(a_set): the elements in some order
ListOfSet(S) == CHOOSE q \in [1..Cardinality(S) -> S] : Range(q) = S

\* State.to_dict: parent by name, children not written
State_to_dict(state, heap) ==
    [name |-> state.name, display_name |-> state.display_name,
     description |-> state.description,
     parent |-> IF state.parent # None
                THEN Some(heap[state.parent[1]].name) ELSE None,
     allowed_transitions |-> ListOfSet(state.allowed_transitions),
     task_templates |-> [i \in 1..Len(state.task_templates) |->
         LET tt == state.task_templates[i]
         IN  [title |-> tt.title, description |-> tt.description,
              assignee |-> tt.assignee, days_until_due |-> tt.days_until_due,
              dependencies |-> tt.dependencies, metadata |-> tt.metadata]],
     metadata |-> state.metadata]

\* State.from_dict: children is the constructor's default, parent is set
\* when the stored name is truthy and a key of the registry.
State_from_dict(data, reg) ==
    [name |-> data.name, display_name |-> data.display_name,
     description |-> data.description,
     parent |-> IF TruthyStr(data.parent) /\ reg[data.parent[1]] # None
                THEN reg[data.parent[1]] ELSE None,
     children |-> <<>>,
     allowed_transitions |-> Range(data.allowed_transitions),
     task_templates |-> [i \in 1..Len(data.task_templates) |->
         LET tt == data.task_templates[i]
         IN  [title |-> tt.title, description |-> tt.description,
              assignee |-> tt.assignee, days_until_due |-> tt.days_until_due,
              dependencies |-> tt.dependencies, metadata |-> tt.metadata]],
     metadata |-> data.metadata]

\* State.add_child: "child_state not in self.children" is true of a list
\* entry that is the same object or an equal one.
add_child(heap, p, c) ==
    LET linked == [heap EXCEPT ![c].parent = Some(p)]
        present == \E k \in 1..Len(linked[p].children) :
                       \/ linked[p].children[k] = c
                       \/ linked[linked[p].children[k]] = linked[c]
    IN  IF present THEN linked
        ELSE [linked EXCEPT ![p].children = Append(@, c)]

\* Mutant of WalkParents: each name is put behind the names found so far.
RECURSIVE WalkParentsAppending(_, _, _, _)
WalkParentsAppending(heap, current, path, fuel) ==
    IF current = None THEN [returns |-> TRUE, path |-> path]
    ELSE IF fuel = 0 THEN [returns |-> FALSE, path |-> path]
    ELSE WalkParentsAppending(heap, heap[current[1]].parent,
                              Append(path, heap[current[1]].name), fuel - 1)

\* The loop of get_full_path: while current is set, its name is inserted at
\* the front of path and current becomes its parent.  A walk that has made
\* more iterations than there are State objects is on a cycle of parent links
\* and never leaves the loop (returns FALSE).
RECURSIVE WalkParents(_, _, _, _)
WalkParents(heap, current, path, fuel) ==
    IF current = None THEN [returns |-> TRUE, path |-> path]
    ELSE IF fuel = 0 THEN [returns |-> FALSE, path |-> path]
    ELSE WalkParents(heap, heap[current[1]].parent,
                     <<heap[current[1]].name>> \o path, fuel - 1)

\* State.get_full_path of the object o
get_full_path(heap, o) == WalkParents(heap, Some(o), <<>>, Len(heap))

\* Transaction.get_state_path
get_state_path(cur, heap) ==
    IF cur # None THEN get_full_path(heap, cur[1])
    ELSE [returns |-> TRUE, path |-> <<>>]

\* No transition_to call is in progress.
NoCall == [pc |-> "idle"]

\* -------------------------------------------------- StateRegistry queries
\* Nothing returned yet.
NoReturn == [kind |-> "none"]

\* Mutant of ValidateTargets: the scan of a state's targets stops at the
\* first undefined one.
RECURSIVE ValidateTargetsFirstOnly(_, _, _, _)
ValidateTargetsFirstOnly(name, targets, j, reg) ==
    IF j > Len(targets) THEN <<>>
    ELSE IF RegistryGet(reg, targets[j]) = None
         THEN <<[state |-> name, target |-> targets[j]]>>
         ELSE ValidateTargetsFirstOnly(name, targets, j + 1, reg)

\* Inner loop of validate_transitions: one error (the state's name and the
\* target it names) for every target that is not a key of _states.
RECURSIVE ValidateTargets(_, _, _, _)
ValidateTargets(name, targets, j, reg) ==
    IF j > Len(targets) THEN <<>>
    ELSE (IF RegistryGet(reg, targets[j]) = None
          THEN <<[state |-> name, target |-> targets[j]]>> ELSE <<>>)
         \o ValidateTargets(name, targets, j + 1, reg)

\* Outer loop of validate_transitions over _states.values().
RECURSIVE ValidateStates(_, _, _, _)
ValidateStates(keys, i, reg, heap) ==
    IF i > Len(keys) THEN <<>>
    ELSE LET state == heap[reg[keys[i]][1]]
         IN  ValidateTargets(state.name, ListOfSet(state.allowed_transitions),
                             1, reg)
             \o ValidateStates(keys, i + 1, reg, heap)

\* StateRegistry.validate_transitions
validate_transitions(reg, heap) ==
    ValidateStates(ListOfSet({n \in DOMAIN reg : reg[n] # None}), 1, reg, heap)

\* Mutant of all_states: the internal dict itself is handed out.
all_states_NoCopy(reg) == [kind |-> "all_states", mapping |-> reg, shared |-> TRUE]

\* StateRegistry.all_states: a new dict with the same entries; shared tells
\* whether the returned dict is the object _states.
all_states(reg) == [kind |-> "all_states", mapping |-> reg, shared |-> FALSE]

VARIABLES
    states,         \* heap of State objects: object number -> State
    registry,       \* StateRegistry._states: name -> Optional[object]
    attached,       \* Transaction._state_registry is set
    current_state,  \* Transaction.current_state: Optional[object]
    state_history,  \* Transaction.state_history
    tasks,          \* Transaction.tasks: id -> Task
    now,            \* the clock read by datetime.now()
    loaded,         \* Optional: the last State.from_dict result and its source
    returned,       \* the collection the last registry query gave its caller
    call,           \* the transition_to call in progress and its position
    result          \* what the last operation returned or raised

vars == <<states, registry, attached, current_state, state_history, tasks,
          now, loaded, returned, call, result>>

txvars == <<attached, current_state, state_history, tasks>>

\* After the configuration loader has run and Transaction() was constructed.
Init ==
    /\ states = StateConfig
    /\ registry = [n \in StateNames |->
                      IF \E o \in StartupObjs : StateConfig[o].name = n
                      THEN Some(CHOOSE o \in StartupObjs : StateConfig[o].name = n)
                      ELSE None]
    /\ attached = FALSE
    /\ current_state = None
    /\ state_history = <<>>
    /\ tasks = <<>>
    /\ now = 0
    /\ loaded = None
    /\ returned = NoReturn
    /\ call = NoCall
    /\ result = "None"

\* Transaction.set_state_registry
SetStateRegistry ==
    /\ attached' = TRUE
    /\ result' = "None"
    /\ UNCHANGED <<call, states, registry, current_state, state_history, tasks,
                   now, loaded, returned>>

\* StateRegistry.register
Register(o) ==
    /\ registry' = RegistryRegister(registry, states, o)
    /\ result' = "None"
    /\ UNCHANGED <<call, states, txvars, now, loaded, returned>>

\* transition_to raising ValueError: no registry, or unknown target
TransitionRaises(target_state_name) ==
    /\ \/ ~attached /\ result' = "ValueError: State registry not set"
       \/ /\ attached
          /\ RegistryGet(registry, target_state_name) = None
          /\ result' = "ValueError: Unknown state"
    /\ UNCHANGED <<call, states, registry, txvars, now, loaded, returned>>

\* Mutant of TransitionRejected: the move is validated before the target is
\* looked up in the registry.
TransitionRejectedBeforeLookup(target_state_name) ==
    /\ attached
    /\ Rejected(current_state, states, target_state_name)
    /\ result' = "False"
    /\ UNCHANGED <<call, states, registry, txvars, now, loaded, returned>>

\* transition_to returning False
TransitionRejected(target_state_name) ==
    /\ attached
    /\ RegistryGet(registry, target_state_name) # None
    /\ Rejected(current_state, states, target_state_name)
    /\ result' = "False"
    /\ UNCHANGED <<call, states, registry, txvars, now, loaded, returned>>

\* transition_to returning True
TransitionSucceeds(target_state_name, notes, auto_create_tasks) ==
    LET target_state == RegistryGet(registry, target_state_name)
    IN  /\ attached
        /\ target_state # None
        /\ ~Rejected(current_state, states, target_state_name)
        /\ Len(state_history) < MaxHistory
        /\ auto_create_tasks =>
              Cardinality(DOMAIN tasks)
                + Len(states[target_state[1]].task_templates) <= MaxTasks
        /\ state_history' = RecordInHistory(state_history,
               RecordTransition(current_state, states, target_state_name,
                                notes, now))
        /\ current_state' = target_state
        /\ tasks' = IF auto_create_tasks
                    THEN create_tasks_from_templates(states[target_state[1]],
                                                     tasks, now)
                    ELSE tasks
        /\ result' = "True"
        /\ UNCHANGED <<call, states, registry, attached, now, loaded, returned>>

\* Transaction.transition_to
TransitionTo(target_state_name, notes, auto_create_tasks) ==
    \/ TransitionRaises(target_state_name)
    \/ TransitionRejected(target_state_name)
    \/ TransitionSucceeds(target_state_name, notes, auto_create_tasks)

\* Task.mark_in_progress on a task of the transaction
MarkInProgress(id) ==
    /\ id \in DOMAIN tasks
    /\ tasks' = [tasks EXCEPT ![id] = mark_in_progress(@)]
    /\ result' = "None"
    /\ UNCHANGED <<call, states, registry, attached, current_state, state_history,
                   now, loaded, returned>>

\* Mutant of MarkCompleted: the tasks that the completion frees are started.
MarkCompletedPropagating(id) ==
    /\ id \in DOMAIN tasks
    /\ LET done == [tasks EXCEPT ![id] = mark_completed(@, now)]
       IN  tasks' = [r \in DOMAIN done |->
                        IF /\ r # id
                           /\ \E k \in 1..Len(done[r].dependencies) :
                                 done[r].dependencies[k] = id
                           /\ can_start(done[r], done)
                        THEN [done[r] EXCEPT !.status = IN_PROGRESS]
                        ELSE done[r]]
    /\ result' = "None"
    /\ UNCHANGED <<call, states, registry, attached, current_state, state_history,
                   now, loaded, returned>>

\* Task.mark_completed on a task of the transaction
MarkCompleted(id) ==
    /\ id \in DOMAIN tasks
    /\ tasks' = [tasks EXCEPT ![id] = mark_completed(@, now)]
    /\ result' = "None"
    /\ UNCHANGED <<call, states, registry, attached, current_state, state_history,
                   now, loaded, returned>>

\* Task.mark_blocked on a task of the transaction
MarkBlocked(id) ==
    /\ id \in DOMAIN tasks
    /\ tasks' = [tasks EXCEPT ![id] = mark_blocked(@)]
    /\ result' = "None"
    /\ UNCHANGED <<call, states, registry, attached, current_state, state_history,
                   now, loaded, returned>>

\* Transaction.add_task with a default-constructed Task
AddTask ==
    /\ Cardinality(DOMAIN tasks) < MaxTasks
    /\ LET id == uuid4(tasks)
       IN  tasks' = (id :> Task(id, "Call client", "", None, "{}", now)) @@ tasks
    /\ result' = "id"
    /\ UNCHANGED <<call, states, registry, attached, current_state, state_history,
                   now, loaded, returned>>

\* transaction = Transaction.from_dict(transaction.to_dict(), registry)
Reload ==
    LET tx == Transaction_from_dict(
                  Transaction_to_dict(current_state, state_history, tasks,
                                      states), registry)
    IN  /\ attached' = TRUE
        /\ current_state' = tx.current_state
        /\ state_history' = tx.state_history
        /\ tasks' = tx.tasks
        /\ result' = "None"
        /\ UNCHANGED <<call, states, registry, now, loaded, returned>>

\* Time passes.
Tick ==
    /\ now < MaxTime
    /\ now' = now + 1
    /\ UNCHANGED <<call, states, registry, txvars, loaded, returned, result>>

\* Operations on the registry and the transaction: every call
\* transition_to(n, notes, auto) takes one of its three exits, and notes and
\* auto_create_tasks are read only on the one that returns True.  Task status
\* operations and add_task are explored by SpecTasks; here every task stays
\* PENDING.
Next ==
    \/ SetStateRegistry
    \/ \E o \in StateObjs : Register(o)
    \/ \E n \in StateNames : TransitionRaises(n)
    \/ \E n \in StateNames : TransitionRejected(n)
    \/ \E n \in StateNames, notes \in Notes, auto \in BOOLEAN :
          TransitionSucceeds(n, notes, auto)
    \/ Reload
    \/ Tick

Spec == Init /\ [][Next]_vars

\* A transaction that has just entered its first state with
\* auto_create_tasks=True: Transaction(); set_state_registry(registry);
\* transition_to(name), after register(o) when o is not a startup object.
InitTasks ==
    \E o \in StateObjs :
        /\ states = StateConfig
        /\ registry = [n \in StateNames |->
              IF StateConfig[o].name = n THEN Some(o)
              ELSE IF \E q \in StartupObjs : StateConfig[q].name = n
              THEN Some(CHOOSE q \in StartupObjs : StateConfig[q].name = n)
              ELSE None]
        /\ attached = TRUE
        /\ current_state = Some(o)
        /\ state_history =
              <<RecordTransition(None, StateConfig, StateConfig[o].name, "", 0)>>
        /\ tasks = create_tasks_from_templates(StateConfig[o], <<>>, 0)
        /\ now = 0
        /\ loaded = None
        /\ returned = NoReturn
        /\ call = NoCall
        /\ result = "True"

\* Status operations on the tasks of the transaction, add_task and reload.
NextTasks ==
    \/ \E id \in 1..MaxTasks : MarkInProgress(id)
    \/ \E id \in 1..MaxTasks : MarkCompleted(id)
    \/ \E id \in 1..MaxTasks : MarkBlocked(id)
    \/ AddTask
    \/ Reload
    \/ Tick

SpecTasks == InitTasks /\ [][NextTasks]_vars

\* str(b) of a bool
BoolStr(b) == IF b THEN "True" ELSE "False"

\* The id -> Task mapping holding the tasks of the transaction with ids in S.
TasksIn(S) == [id \in S |-> tasks[id]]

\* tasks[id].is_blocked_by_dependencies(M), M the tasks with ids in S
IsBlockedByDependencies(id, S) ==
    /\ id \in DOMAIN tasks
    /\ result' = BoolStr(is_blocked_by_dependencies(tasks[id], TasksIn(S)))
    /\ UNCHANGED <<call, states, registry, txvars, now, loaded, returned>>

\* tasks[id].can_start(M), M the tasks with ids in S
CanStart(id, S) ==
    /\ id \in DOMAIN tasks
    /\ result' = BoolStr(can_start(tasks[id], TasksIn(S)))
    /\ UNCHANGED <<call, states, registry, txvars, now, loaded, returned>>

\* Transaction.get_pending_tasks
GetPendingTasks ==
    /\ returned' = [kind |-> "tasks", ids |-> get_pending_tasks(tasks)]
    /\ result' = "list"
    /\ UNCHANGED <<call, states, registry, txvars, now, loaded>>

\* Status operations on the tasks of one expansion, and the queries about
\* what can start.
NextQueries ==
    \/ \E id \in 1..MaxTasks : MarkInProgress(id)
    \/ \E id \in 1..MaxTasks : MarkCompleted(id)
    \/ \E id \in 1..MaxTasks : MarkBlocked(id)
    \/ \E id \in 1..MaxTasks, S \in SUBSET DOMAIN tasks :
           IsBlockedByDependencies(id, S)
    \/ \E id \in 1..MaxTasks, S \in SUBSET DOMAIN tasks : CanStart(id, S)
    \/ GetPendingTasks

SpecQueries == InitTasks /\ [][NextQueries]_vars

\* The tasks whose status the operations of SpecOps change.
OpsTasks == {1, 2}

\* Every operation of a Transaction on one transaction at one instant:
\* transition_to with each of its exits, add_task and the status operations
\* of its first tasks, in any order.
NextOps ==
    \/ SetStateRegistry
    \/ \E n \in StateNames : TransitionRaises(n)
    \/ \E n \in StateNames : TransitionRejected(n)
    \/ \E n \in StateNames, notes \in Notes, auto \in BOOLEAN :
           TransitionSucceeds(n, notes, auto)
    \/ \E id \in OpsTasks : MarkInProgress(id)
    \/ \E id \in OpsTasks : MarkCompleted(id)
    \/ \E id \in OpsTasks : MarkBlocked(id)
    \/ AddTask

SpecOps == Init /\ [][NextOps]_vars

\* ------------------------------------------------------------------------
\* Building the registry and the State hierarchy (SpecState)
\* ------------------------------------------------------------------------

\* Length of all children lists together.
RECURSIVE Links(_, _)
Links(heap, o) ==
    IF o = 0 THEN 0 ELSE Len(heap[o].children) + Links(heap, o - 1)

\* State objects constructed, StateRegistry() empty, no add_child call yet.
InitState ==
    /\ states = StateConfig
    /\ registry = [n \in StateNames |-> None]
    /\ attached = FALSE
    /\ current_state = None
    /\ state_history = <<>>
    /\ tasks = <<>>
    /\ now = 0
    /\ loaded = None
    /\ returned = NoReturn
    /\ call = NoCall
    /\ result = "None"

\* State.add_child
AddChild(p, c) ==
    /\ Links(states, Len(states)) < MaxLinks
    /\ states' = add_child(states, p, c)
    /\ result' = "None"
    /\ UNCHANGED <<call, registry, txvars, now, loaded, returned>>

\* State.from_dict(states[o].to_dict(), registry)
LoadState(o) ==
    /\ loaded' = Some([source |-> o,
                       state |-> State_from_dict(State_to_dict(states[o], states),
                                                 registry)])
    /\ result' = "State"
    /\ UNCHANGED <<call, states, registry, txvars, now, returned>>

NextState ==
    \/ \E o \in StateObjs : Register(o)
    \/ \E p \in StateObjs, c \in StateObjs : AddChild(p, c)
    \/ \E o \in StateObjs : LoadState(o)

SpecState == InitState /\ [][NextState]_vars

\* What a path query leaves behind: the list it returned, or no return at
\* all when the walk never ends.
PathOutcome(walk) ==
    /\ returned' = IF walk.returns THEN [kind |-> "path", list |-> walk.path]
                   ELSE [kind |-> "no return"]
    /\ result' = IF walk.returns THEN "list" ELSE "no return"

\* State.get_full_path
GetFullPath(o) ==
    /\ PathOutcome(get_full_path(states, o))
    /\ UNCHANGED <<call, states, registry, txvars, now, loaded>>

\* Transaction.get_state_path
GetStatePath ==
    /\ PathOutcome(get_state_path(current_state, states))
    /\ UNCHANGED <<call, states, registry, txvars, now, loaded>>

\* The State objects that SpecPath arranges in a hierarchy.
PathObjs == {1, 2, 3}

\* A hierarchy built by add_child over registered states, a transaction
\* moving through them, and the path queries.
NextPath ==
    \/ SetStateRegistry
    \/ \E p \in PathObjs, c \in PathObjs : AddChild(p, c)
    \/ \E n \in StateNames : TransitionSucceeds(n, "", FALSE)
    \/ \E o \in StateObjs : GetFullPath(o)
    \/ GetStatePath

SpecPath == Init /\ [][NextPath]_vars

\* ------------------------------------------------------------------------
\* transition_to statement by statement, with readers in between (SpecSteps)
\* ------------------------------------------------------------------------

\* transition_to up to self.state_history.append(transition): the checks
\* pass and the StateTransition is recorded.  before is the set of task ids
\* the transaction holds when the call starts.
StepRecord(target_state_name, notes, auto_create_tasks) ==
    LET target_state == RegistryGet(registry, target_state_name)
    IN  /\ call = NoCall
        /\ attached
        /\ target_state # None
        /\ ~Rejected(current_state, states, target_state_name)
        /\ Len(state_history) < MaxHistory
        /\ auto_create_tasks =>
              Cardinality(DOMAIN tasks)
                + Len(states[target_state[1]].task_templates) <= MaxTasks
        /\ state_history' = RecordInHistory(state_history,
               RecordTransition(current_state, states, target_state_name,
                                notes, now))
        /\ call' = [pc |-> "recorded", target_state |-> target_state,
                    auto_create_tasks |-> auto_create_tasks,
                    before |-> DOMAIN tasks]
        /\ result' = "running"
        /\ UNCHANGED <<states, registry, attached, current_state, tasks, now,
                       loaded, returned>>

\* self.current_state = target_state
StepEnter ==
    /\ call.pc = "recorded"
    /\ current_state' = call.target_state
    /\ call' = [call EXCEPT !.pc = IF call.auto_create_tasks
                                   THEN "expand" ELSE "return"]
    /\ UNCHANGED <<states, registry, attached, state_history, tasks, now,
                   loaded, returned, result>>

\* Mutant of StepInstantiate: both passes run on a local buffer and the wired
\* tasks are put into tasks at once.
StepInstantiateBuffered ==
    /\ call.pc = "expand"
    /\ LET templates == states[call.target_state[1]].task_templates
           pass1 == Instantiate(templates, 1, tasks, <<>>, now)
       IN  /\ tasks' = WireDependencies(templates, 1, pass1.tasks,
                                        pass1.template_to_task)
           /\ call' = [pc |-> "wire", target_state |-> call.target_state,
                       before |-> call.before,
                       template_to_task |-> pass1.template_to_task]
    /\ UNCHANGED <<states, registry, attached, current_state, state_history,
                   now, loaded, returned, result>>

\* The first loop of _create_tasks_from_templates: every task of the batch
\* is put into tasks, none has a dependency yet.
StepInstantiate ==
    /\ call.pc = "expand"
    /\ LET templates == states[call.target_state[1]].task_templates
           pass1 == Instantiate(templates, 1, tasks, <<>>, now)
       IN  /\ tasks' = pass1.tasks
           /\ call' = [pc |-> "wire", target_state |-> call.target_state,
                       before |-> call.before,
                       template_to_task |-> pass1.template_to_task]
    /\ UNCHANGED <<states, registry, attached, current_state, state_history,
                   now, loaded, returned, result>>

\* The second loop of _create_tasks_from_templates.
StepWire ==
    /\ call.pc = "wire"
    /\ tasks' = WireDependencies(states[call.target_state[1]].task_templates,
                                 1, tasks, call.template_to_task)
    /\ call' = [pc |-> "return"]
    /\ UNCHANGED <<states, registry, attached, current_state, state_history,
                   now, loaded, returned, result>>

\* return True
StepReturn ==
    /\ call.pc = "return"
    /\ call' = NoCall
    /\ result' = "True"
    /\ UNCHANGED <<states, registry, txvars, now, loaded, returned>>

\* A reader or a persistence job calls transaction.to_dict().
Snapshot ==
    /\ returned' = [kind |-> "dict",
                    data |-> Transaction_to_dict(current_state, state_history,
                                                 tasks, states)]
    /\ UNCHANGED <<states, registry, txvars, now, loaded, call, result>>

\* A reader calls transaction.get_pending_tasks().
ReadPendingTasks ==
    /\ returned' = [kind |-> "tasks", ids |-> get_pending_tasks(tasks)]
    /\ UNCHANGED <<states, registry, txvars, now, loaded, call, result>>

\* One caller runs transition_to calls statement by statement while readers
\* look at the transaction between any two of its statements.
NextSteps ==
    \/ SetStateRegistry
    \/ \E n \in StateNames, auto \in BOOLEAN : StepRecord(n, "", auto)
    \/ StepEnter
    \/ StepInstantiate
    \/ StepWire
    \/ StepReturn
    \/ Snapshot
    \/ ReadPendingTasks

SpecSteps == Init /\ [][NextSteps]_vars

\* ------------------------------------------------------------------------
\* Expansion of template lists in every order (SpecExpand)
\* ------------------------------------------------------------------------

\* Templates a configuration may give "under_contract".
TemplatePool ==
    {TaskTemplate("Repair", "Fix findings", None, None, <<"Inspect">>),
     TaskTemplate("Inspect", "Order inspection", None, None, <<"Appraise">>),
     TaskTemplate("Inspect", "Order re-inspection", None, None, <<>>),
     TaskTemplate("Appraise", "Order appraisal", None, None, <<"Repair">>)}

\* The lists of distinct templates from the pool, in every order.
TemplateLists ==
    {q \in UNION {[1..k -> TemplatePool] : k \in 1..3} :
        \A i, j \in DOMAIN q : q[i] = q[j] => i = j}

\* The configuration is loaded with one of the template lists for
\* "under_contract"; the registry holds the startup states.
InitExpand ==
    \E L \in TemplateLists :
        /\ states = [StateConfig EXCEPT ![2].task_templates = L]
        /\ registry = [n \in StateNames |->
                          IF \E o \in StartupObjs : StateConfig[o].name = n
                          THEN Some(CHOOSE o \in StartupObjs : StateConfig[o].name = n)
                          ELSE None]
        /\ attached = FALSE
        /\ current_state = None
        /\ state_history = <<>>
        /\ tasks = <<>>
        /\ now = 0
        /\ loaded = None
        /\ returned = NoReturn
        /\ call = NoCall
        /\ result = "None"

NextExpand ==
    \/ SetStateRegistry
    \/ \E n \in StateNames : TransitionSucceeds(n, "", TRUE)

SpecExpand == InitExpand /\ [][NextExpand]_vars

\* ------------------------------------------------------------------------
\* Registering states and querying the registry (SpecRegistry)
\* ------------------------------------------------------------------------

\* StateRegistry.validate_transitions
ValidateTransitions ==
    /\ returned' = [kind |-> "errors",
                    list |-> validate_transitions(registry, states)]
    /\ result' = "list"
    /\ UNCHANGED <<call, states, registry, txvars, now, loaded>>

\* StateRegistry.all_states
AllStates ==
    /\ returned' = all_states(registry)
    /\ result' = "dict"
    /\ UNCHANGED <<call, states, registry, txvars, now, loaded>>

\* The caller writes returned[name] = State object o, or deletes
\* returned[name] (entry None), in the dict all_states gave it.
WriteReturned(name, entry) ==
    /\ returned.kind = "all_states"
    /\ returned' = [returned EXCEPT !.mapping[name] = entry]
    /\ registry' = IF returned.shared THEN returned'.mapping ELSE registry
    /\ result' = "None"
    /\ UNCHANGED <<call, states, txvars, now, loaded>>

\* Objects a caller puts into a returned dict.
WrittenObjs == {1, 5}

NextRegistry ==
    \/ \E o \in StateObjs : Register(o)
    \/ ValidateTransitions
    \/ AllStates
    \/ \E n \in StateNames, o \in WrittenObjs : WriteReturned(n, Some(o))
    \/ \E n \in StateNames : WriteReturned(n, None)

SpecRegistry == InitState /\ [][NextRegistry]_vars

\* ------------------------------------------------------------------------
\* Properties of transition_to
\* ------------------------------------------------------------------------

\* The name of the State current_state refers to (None when unset).
CurrentName == IF current_state # None
               THEN Some(states[current_state[1]].name) ELSE None

\* C1 - Transition gating: with a registry attached, a current state A and a
\* registered target B that is not in A.allowed_transitions, transition_to(B)
\* returns False and leaves current_state, state_history and tasks as they
\* were, whatever auto_create_tasks is.
C1_TransitionGating ==
    [][\A B \in StateNames, notes \in Notes, auto \in BOOLEAN :
          ( /\ attached
            /\ current_state # None
            /\ registry[B] # None
            /\ B \notin states[current_state[1]].allowed_transitions
            /\ TransitionTo(B, notes, auto) )
          => ( /\ result' = "False"
               /\ UNCHANGED <<current_state, state_history, tasks>> )]_vars

\* C1 witness: a rejected call on a transaction that has a current state.
C1_Witness ==
    /\ result = "False"
    /\ current_state # None
    /\ state_history # <<>>

\* C2 - Successful transition effect: with a registry attached, a registered
\* target and either no current state or a current state that allows the
\* target, transition_to returns True, appends exactly one StateTransition
\* (from_state = previous current state's name or None, to_state = target,
\* the given notes) to the end of state_history and sets current_state to the
\* State the registry returns for the target.
C2_SuccessfulTransition ==
    [][\A n \in StateNames, notes \in Notes, auto \in BOOLEAN :
          ( /\ attached
            /\ registry[n] # None
            /\ \/ current_state = None
               \/ n \in states[current_state[1]].allowed_transitions
            /\ TransitionTo(n, notes, auto) )
          => ( /\ result' = "True"
               /\ Len(state_history') = Len(state_history) + 1
               /\ SubSeq(state_history', 1, Len(state_history)) = state_history
               /\ state_history'[Len(state_history')].from_state = CurrentName
               /\ state_history'[Len(state_history')].to_state = n
               /\ state_history'[Len(state_history')].notes = notes
               /\ current_state' = registry[n] )]_vars

\* C2 witness: a second transition was recorded with notes and a from_state.
C2_Witness ==
    /\ result = "True"
    /\ Len(state_history) = 2
    /\ state_history[2].from_state = Some("new_listing")
    /\ state_history[2].to_state = "under_contract"
    /\ state_history[2].notes = "offer accepted"
    /\ current_state = Some(2)

\* C3 - First transition bypass: with a registry attached and no current
\* state, transition_to(T) returns True for every registered T, whatever any
\* state's allowed_transitions holds.
C3_FirstTransitionBypass ==
    [][\A T \in StateNames, notes \in Notes, auto \in BOOLEAN :
          ( /\ attached
            /\ current_state = None
            /\ registry[T] # None
            /\ TransitionTo(T, notes, auto) )
          => ( result' = "True" /\ current_state' = registry[T] )]_vars

\* C3 witness: the first transition entered the state named "", which no
\* state lists in its allowed_transitions.
C3_Witness ==
    /\ result = "True"
    /\ Len(state_history) = 1
    /\ state_history[1].from_state = None
    /\ state_history[1].to_state = ""
    /\ \A o \in StateObjs : "" \notin states[o].allowed_transitions

\* C4 - Hard configuration errors: transition_to raises when no registry is
\* attached and when the target is not registered (also when the current
\* state's allowed_transitions names the target); current_state,
\* state_history and tasks are unchanged in both cases.
C4_ConfigurationErrors ==
    [][\A n \in StateNames, notes \in Notes, auto \in BOOLEAN :
          TransitionTo(n, notes, auto)
          => /\ ~attached =>
                  /\ result' = "ValueError: State registry not set"
                  /\ UNCHANGED <<current_state, state_history, tasks>>
             /\ (attached /\ registry[n] = None) =>
                  /\ result' = "ValueError: Unknown state"
                  /\ UNCHANGED <<current_state, state_history, tasks>>]_vars

\* C4 witness: the unknown-state error was raised while the current state
\* allows the unregistered name "pending_inspection".
C4_Witness ==
    /\ result = "ValueError: Unknown state"
    /\ current_state = Some(2)
    /\ "pending_inspection" \in states[2].allowed_transitions
    /\ registry["pending_inspection"] = None

\* C5 - Template expansion count: a successful transition_to into a state
\* with N templates adds exactly N entries to tasks when auto_create_tasks is
\* true (keeping every earlier entry), and adds none when it is false while
\* state_history and current_state are still updated.
C5_ExpansionCount ==
    [][\A n \in StateNames, notes \in Notes, auto \in BOOLEAN :
          ( result' = "True" /\ TransitionTo(n, notes, auto) )
          => /\ auto =>
                  /\ DOMAIN tasks \subseteq DOMAIN tasks'
                  /\ Cardinality(DOMAIN tasks') = Cardinality(DOMAIN tasks)
                        + Len(states[registry[n][1]].task_templates)
             /\ ~auto =>
                  /\ tasks' = tasks
                  /\ Len(state_history') = Len(state_history) + 1
                  /\ current_state' = registry[n]]_vars

\* C5 witness: "new_listing" (one template) was entered twice with task
\* creation, and holds one task per visit.
C5_Witness ==
    /\ result = "True"
    /\ Len(state_history) = 2
    /\ state_history[1].to_state = "new_listing"
    /\ state_history[2].to_state = "new_listing"
    /\ current_state = Some(1)
    /\ Cardinality(DOMAIN tasks) = 2
    /\ \A id \in DOMAIN tasks : tasks[id].title = "Photos"

\* ------------------------------------------------------------------------
\* Properties of template expansion
\* ------------------------------------------------------------------------

\* The templates of the state a transition_to(n) enters.
TemplatesOf(n) == states[registry[n][1]].task_templates

TitlesOf(n) == {TemplatesOf(n)[i].title : i \in 1..Len(TemplatesOf(n))}

UniqueTitles(n) == Cardinality(TitlesOf(n)) = Len(TemplatesOf(n))

\* The ids of the tasks a step added.
NewTasks == DOMAIN tasks' \ DOMAIN tasks

\* The task a step created with the given title (titles unique).
NewTaskTitled(title) == CHOOSE id \in NewTasks : tasks'[id].title = title

\* The dependency names of a template that are titles of the entered state.
RECURSIVE LocalNames(_, _)
LocalNames(names, titles) ==
    IF names = <<>> THEN <<>>
    ELSE (IF Head(names) \in titles THEN <<Head(names)>> ELSE <<>>)
         \o LocalNames(Tail(names), titles)

\* C6 - Dependency wiring within a batch: when the entered state's template
\* titles are unique, the task created from template T depends on exactly the
\* tasks created in the same expansion from the templates T.dependencies
\* names, in the order it names them, skipping names that are not titles of
\* that state.
C6_DependencyWiring ==
    [][\A n \in StateNames, notes \in Notes :
          ( /\ result' = "True"
            /\ TransitionTo(n, notes, TRUE)
            /\ UniqueTitles(n) )
          => \A i \in 1..Len(TemplatesOf(n)) :
                LET T == TemplatesOf(n)[i]
                    local == LocalNames(T.dependencies, TitlesOf(n))
                IN  /\ \E id \in NewTasks : tasks'[id].title = T.title
                    /\ tasks'[NewTaskTitled(T.title)].dependencies =
                          [j \in 1..Len(local) |-> NewTaskTitled(local[j])]]_vars

\* C6 witness: "cancelled" was entered; Refund names Release, Inspect, Notify
\* and depends on the Release task and then the Notify task.
C6_Witness ==
    /\ result = "True"
    /\ \E r \in DOMAIN tasks :
          /\ tasks[r].title = "Refund"
          /\ Len(tasks[r].dependencies) = 2
          /\ tasks[tasks[r].dependencies[1]].title = "Release"
          /\ tasks[tasks[r].dependencies[2]].title = "Notify"
          /\ tasks[r].dependencies[1] > tasks[r].dependencies[2]

\* C7 - Dependency wiring scope: a successful transition_to with task
\* creation gives every template a task, and every id in a new task's
\* dependencies is the id of a task created by the same call; a dependency
\* name that is not a title of the entered state yields no edge, also when an
\* older task carries that title.
C7_DependencyScope ==
    [][\A n \in StateNames, notes \in Notes :
          ( result' = "True" /\ TransitionTo(n, notes, TRUE) )
          => /\ \A i \in 1..Len(TemplatesOf(n)) :
                   \E id \in NewTasks : tasks'[id].title = TemplatesOf(n)[i].title
             /\ \A id \in NewTasks :
                   \A k \in 1..Len(tasks'[id].dependencies) :
                      /\ tasks'[id].dependencies[k] \in NewTasks
                      /\ tasks'[tasks'[id].dependencies[k]].title \in TitlesOf(n)]_vars

\* C7 witness: a Photos task exists from "new_listing"; "under_contract" was
\* entered afterwards and its Repair task, whose template names Photos and
\* Inspect, depends on the Inspect task only.
C7_Witness ==
    /\ result = "True"
    /\ Len(state_history) = 2
    /\ \E p, r \in DOMAIN tasks :
          /\ tasks[p].title = "Photos"
          /\ tasks[r].title = "Repair"
          /\ Len(tasks[r].dependencies) = 1
          /\ tasks[tasks[r].dependencies[1]].title = "Inspect"

\* ------------------------------------------------------------------------
\* Properties of task status operations (SpecTasks)
\* ------------------------------------------------------------------------

\* C8 - Dependency unblocking over time: a task r that depends on task i of
\* the same expansion has can_start false in every state where i is not
\* COMPLETED, and can_start true right after mark_completed() on i when i was
\* the last of its dependencies still open.
C8_DependencyUnblocking ==
    /\ [](\A r \in DOMAIN tasks : \A k \in 1..Len(tasks[r].dependencies) :
             tasks[tasks[r].dependencies[k]].status # COMPLETED
             => ~can_start(tasks[r], tasks))
    /\ [][\A i \in DOMAIN tasks : \A r \in DOMAIN tasks :
             ( /\ MarkCompleted(i)
               /\ \E k \in 1..Len(tasks[r].dependencies) :
                     tasks[r].dependencies[k] = i
               /\ \A k \in 1..Len(tasks[r].dependencies) :
                     \/ tasks[r].dependencies[k] = i
                     \/ tasks[tasks[r].dependencies[k]].status = COMPLETED )
             => can_start(tasks'[r], tasks')]_vars

\* C8 witness: Inspect is COMPLETED and Repair, which depends on it alone and
\* is still PENDING, can start.
C8_Witness ==
    \E r, i \in DOMAIN tasks :
        /\ tasks[r].title = "Repair"
        /\ tasks[i].title = "Inspect"
        /\ tasks[r].dependencies = <<i>>
        /\ tasks[i].status = COMPLETED
        /\ tasks[r].status = PENDING
        /\ can_start(tasks[r], tasks)

\* ------------------------------------------------------------------------
\* Properties of serialization
\* ------------------------------------------------------------------------

\* The transaction as Transaction.from_dict(transaction.to_dict(), registry)
\* rebuilds it.
Reloaded ==
    Transaction_from_dict(
        Transaction_to_dict(current_state, state_history, tasks, states),
        registry)

\* The registry maps the current state's name to the current state.
CurrentRegistered ==
    current_state # None => registry[CurrentName[1]] = current_state

\* C9 - Round-trip of Task, StateTransition and Transaction: when the
\* registry contains the transaction's current state, from_dict(to_dict(x))
\* equals x for every task, every history entry and the transaction itself
\* (current_state, the order of state_history, the key set of tasks and every
\* task field).
C9_RoundTrip ==
    CurrentRegistered =>
        /\ \A id \in DOMAIN tasks :
              Task_from_dict(Task_to_dict(tasks[id])) = tasks[id]
        /\ \A k \in 1..Len(state_history) :
              StateTransition_from_dict(StateTransition_to_dict(state_history[k]))
                 = state_history[k]
        /\ Reloaded.current_state = current_state
        /\ Len(Reloaded.state_history) = Len(state_history)
        /\ \A k \in 1..Len(state_history) :
              Reloaded.state_history[k] = state_history[k]
        /\ DOMAIN Reloaded.tasks = DOMAIN tasks
        /\ \A id \in DOMAIN tasks : Reloaded.tasks[id] = tasks[id]

\* The parent of object o, if any, is the State registered under its name.
ParentRegistered(o) ==
    states[o].parent # None =>
        registry[states[states[o].parent[1]].name] = states[o].parent

\* C10 - Round-trip of State: for every State whose parent (if any) is
\* registered, State.from_dict(s.to_dict(), registry) equals s in name,
\* display_name, description, parent, children, allowed_transitions,
\* task_templates and metadata.
C10_StateRoundTrip ==
    \A o \in StateObjs :
        ParentRegistered(o) =>
            State_from_dict(State_to_dict(states[o], states), registry)
               = states[o]

\* ------------------------------------------------------------------------
\* Properties of the registry queries
\* ------------------------------------------------------------------------
\* The (state, target) pairs of the registry whose target is not registered.
UndefinedTargets(reg, heap) ==
    {p \in StateNames \X StateNames :
        /\ RegistryGet(reg, p[1]) # None
        /\ p[2] \in heap[reg[p[1]][1]].allowed_transitions
        /\ RegistryGet(reg, p[2]) = None}

\* How often the error for the pair p occurs in the list errs.
ErrorCount(errs, p) ==
    Cardinality({k \in 1..Len(errs) : errs[k] = [state |-> p[1], target |-> p[2]]})

\* C11 (validation completeness): validate_transitions returns a non-empty
\* list iff some registered state allows a target that is not registered; the
\* list has exactly one error for every (state, target) pair whose target is
\* unregistered and nothing else, so it is empty when every target is
\* registered.
C11_ValidationCompleteness ==
    [][(result' = "list" /\ ValidateTransitions) =>
        LET errs == returned'.list
            bad  == UndefinedTargets(registry, states)
        IN  /\ (errs # <<>>) <=> (bad # {})
            /\ Len(errs) = Cardinality(bad)
            /\ \A p \in bad : ErrorCount(errs, p) = 1
            /\ (bad = {}) => (errs = <<>>)]_vars

\* validate_transitions has reported the three undefined targets of
\* "under_contract", the only state registered.
C11_Witness ==
    /\ returned.kind = "errors"
    /\ Len(returned.list) = 3
    /\ UndefinedTargets(registry, states) =
           {<<"under_contract", "pending_inspection">>,
            <<"under_contract", "cancelled">>,
            <<"under_contract", "new_listing">>}

\* ------------------------------------------------------------------------
\* Properties of the history and of task status operations
\* ------------------------------------------------------------------------
\* C12 (null from_state only at the start): in the history of a transaction
\* reached by transition_to calls and to_dict/from_dict reloads, an entry
\* whose from_state is None is the first entry.
C12_NullFromStateOnlyFirst ==
    \A k \in 1..Len(state_history) :
        state_history[k].from_state = None => k = 1

\* The step is a transition_to call that returns True.
SuccessfulTransitionStep ==
    /\ result' = "True"
    /\ \E n \in StateNames, notes \in Notes, auto \in BOOLEAN :
           TransitionSucceeds(n, notes, auto)

\* C13 (append-only history): under every operation of a Transaction
\* (transition_to succeeding, rejected or raising, add_task, task status
\* changes) state_history never shrinks and every entry keeps its position
\* and fields; a successful transition_to adds exactly one entry at the end
\* and every other operation leaves the history unchanged.
C13_AppendOnlyHistory ==
    [][/\ Len(state_history') >= Len(state_history)
       /\ \A k \in 1..Len(state_history) : state_history'[k] = state_history[k]
       /\ IF SuccessfulTransitionStep
          THEN Len(state_history') = Len(state_history) + 1
          ELSE state_history' = state_history]_vars

\* A second transition has been recorded behind the first, a further
\* transition_to has been rejected, and tasks of the transaction have been
\* added by hand and have changed status.
C13_Witness ==
    /\ Len(state_history) = 2
    /\ state_history[1].from_state = None
    /\ state_history[2].from_state = Some("new_listing")
    /\ state_history[2].to_state = "under_contract"
    /\ result = "False"
    /\ \E id \in DOMAIN tasks : tasks[id].title = "Call client"
    /\ \E id \in DOMAIN tasks : tasks[id].status = COMPLETED

\* C14 (task status transition relation): mark_in_progress sets IN_PROGRESS
\* when the status is PENDING and otherwise changes no field and raises
\* nothing; mark_completed sets COMPLETED and stamps completed_at from every
\* prior status; mark_blocked sets BLOCKED from every prior status.
C14_StatusTransitionRelation ==
    [][\A id \in 1..MaxTasks :
        /\ MarkInProgress(id) =>
              /\ result' = "None"
              /\ tasks'[id] = IF tasks[id].status = PENDING
                              THEN [tasks[id] EXCEPT !.status = IN_PROGRESS]
                              ELSE tasks[id]
        /\ MarkCompleted(id) =>
              /\ tasks'[id].status = COMPLETED
              /\ tasks'[id].completed_at = Some(now)
        /\ MarkBlocked(id) => tasks'[id].status = BLOCKED]_vars

\* One task is IN_PROGRESS, one was completed and then blocked, and one was
\* completed again at a later instant than its creation.
C14_Witness ==
    /\ \E id \in DOMAIN tasks : tasks[id].status = IN_PROGRESS
    /\ \E id \in DOMAIN tasks :
           tasks[id].status = BLOCKED /\ tasks[id].completed_at # None
    /\ \E id \in DOMAIN tasks :
           /\ tasks[id].status = COMPLETED
           /\ tasks[id].completed_at = Some(MaxTime)
           /\ tasks[id].created_at < MaxTime

\* The due date a task created from template T has when the state is entered
\* at the instant t.
DueDateOf(T, t) ==
    IF T.days_until_due # None THEN Some(t + T.days_until_due[1]) ELSE None

\* The task comes from template T.
FromTemplate(task, T) ==
    task.title = T.title /\ task.description = T.description

\* C15 (due date at creation): a task created by template expansion is due
\* days_until_due days after the instant of the state entry when its template
\* gives days_until_due (0 included) and has no due date when the template
\* gives none; a due date from days_until_due >= 0 is not earlier than the
\* timestamp of the StateTransition recorded for the entry.
C15_DueDateAtCreation ==
    [][\A n \in StateNames, notes \in Notes :
          ( result' = "True" /\ TransitionTo(n, notes, TRUE) )
          => LET entry == state_history'[Len(state_history')]
             IN  /\ \A i \in 1..Len(TemplatesOf(n)) :
                       \E id \in NewTasks :
                           /\ FromTemplate(tasks'[id], TemplatesOf(n)[i])
                           /\ tasks'[id].due_date =
                                  DueDateOf(TemplatesOf(n)[i], entry.timestamp)
                 /\ \A id \in NewTasks :
                       /\ \E i \in 1..Len(TemplatesOf(n)) :
                             /\ FromTemplate(tasks'[id], TemplatesOf(n)[i])
                             /\ tasks'[id].due_date =
                                    DueDateOf(TemplatesOf(n)[i], entry.timestamp)
                             /\ ( /\ TemplatesOf(n)[i].days_until_due # None
                                  /\ TemplatesOf(n)[i].days_until_due[1] >= 0 )
                                => tasks'[id].due_date[1] >= entry.timestamp]_vars

\* The relisted "new_listing" was entered at instant 1: the task of its
\* template with 0 days is due at instant 1 and the task of its template
\* without days_until_due has no due date.
C15_Witness ==
    /\ result = "True"
    /\ Len(state_history) = 1
    /\ state_history[1].timestamp = 1
    /\ current_state = Some(5)
    /\ \E id \in DOMAIN tasks :
           tasks[id].description = "Retake photos" /\ tasks[id].due_date = Some(1)
    /\ \E id \in DOMAIN tasks :
           tasks[id].description = "Take photos" /\ tasks[id].due_date = None

\* ------------------------------------------------------------------------
\* Properties of the dependency queries (SpecQueries)
\* ------------------------------------------------------------------------
\* Some dependency of the task is a key of M and its task is not COMPLETED.
OpenDependencyIn(task, M) ==
    \E d \in Range(task.dependencies) : d \in DOMAIN M /\ M[d].status # COMPLETED

\* C16 (pull-based dependency evaluation): for every task t and every
\* id -> Task mapping M, t.is_blocked_by_dependencies(M) is true iff some id
\* in t.dependencies is a key of M whose task is not COMPLETED (an id that is
\* not a key does not block), t.can_start(M) is its negation, and neither
\* call changes any task.
C16_PullBasedEvaluation ==
    /\ [](\A id \in DOMAIN tasks : \A S \in SUBSET DOMAIN tasks :
             /\ is_blocked_by_dependencies(tasks[id], TasksIn(S))
                   <=> OpenDependencyIn(tasks[id], TasksIn(S))
             /\ can_start(tasks[id], TasksIn(S))
                   <=> ~is_blocked_by_dependencies(tasks[id], TasksIn(S)))
    /\ [][\A id \in DOMAIN tasks : \A S \in SUBSET DOMAIN tasks :
             /\ IsBlockedByDependencies(id, S) =>
                   /\ result' = BoolStr(OpenDependencyIn(tasks[id], TasksIn(S)))
                   /\ tasks' = tasks
             /\ CanStart(id, S) =>
                   /\ result' = BoolStr(~OpenDependencyIn(tasks[id], TasksIn(S)))
                   /\ tasks' = tasks]_vars

\* Refund depends on Release and Notify; Release is COMPLETED and Notify is
\* not, so Refund is blocked by the whole map but not by the map without
\* Notify, and the last query answered True.
C16_Witness ==
    \E r, a, b \in DOMAIN tasks :
        /\ tasks[r].title = "Refund"
        /\ tasks[r].dependencies = <<a, b>>
        /\ tasks[a].status = COMPLETED
        /\ tasks[b].status # COMPLETED
        /\ is_blocked_by_dependencies(tasks[r], tasks)
        /\ can_start(tasks[r], TasksIn({r, a}))
        /\ result = "True"

\* The tasks that are PENDING and have every dependency that is in the
\* transaction's tasks COMPLETED.
ReadyTasks ==
    {id \in DOMAIN tasks :
        /\ tasks[id].status = PENDING
        /\ \A d \in Range(tasks[id].dependencies) :
              d \in DOMAIN tasks => tasks[d].status = COMPLETED}

\* C17 (get_pending_tasks): the call returns exactly the tasks that are
\* PENDING and whose dependencies present in tasks are all COMPLETED: no
\* IN_PROGRESS, BLOCKED or COMPLETED task, no PENDING task with an
\* uncompleted dependency, and every PENDING task whose dependencies are
\* completed.
C17_PendingTasks ==
    [][(result' = "list" /\ GetPendingTasks) =>
        /\ returned'.ids = ReadyTasks
        /\ \A id \in returned'.ids : tasks[id].status = PENDING
        /\ \A id \in returned'.ids : ~OpenDependencyIn(tasks[id], tasks)
        /\ \A id \in DOMAIN tasks :
              (tasks[id].status = PENDING /\ ~OpenDependencyIn(tasks[id], tasks))
              => id \in returned'.ids]_vars

\* get_pending_tasks has returned Inspect and left out Repair, which is
\* PENDING but waits for Inspect.
C17_Witness ==
    /\ returned.kind = "tasks"
    /\ \E r, i \in DOMAIN tasks :
          /\ tasks[r].title = "Repair" /\ tasks[r].status = PENDING
          /\ tasks[i].title = "Inspect" /\ tasks[i].status = PENDING
          /\ tasks[r].dependencies = <<i>>
          /\ returned.ids = {i}

\* The step is a status operation on the task id.
StatusOperation(id) ==
    MarkInProgress(id) \/ MarkCompleted(id) \/ MarkBlocked(id)

\* The task depends on the task id.
DependsOn(task, id) == \E k \in 1..Len(task.dependencies) : task.dependencies[k] = id

\* C18 (no automatic status propagation): a status operation on one task
\* changes only that task's status and completed_at; every other task of the
\* transaction, in particular every task that depends on it, keeps its
\* status, completed_at and dependencies, so a dependent task is still
\* PENDING or BLOCKED after its last dependency completes.
C18_NoPropagation ==
    [][\A id \in DOMAIN tasks :
          StatusOperation(id) =>
             /\ DOMAIN tasks' = DOMAIN tasks
             /\ tasks'[id] = [tasks[id] EXCEPT
                                 !.status = tasks'[id].status,
                                 !.completed_at = tasks'[id].completed_at]
             /\ \A r \in DOMAIN tasks \ {id} :
                   /\ tasks'[r] = tasks[r]
                   /\ ( /\ DependsOn(tasks[r], id)
                        /\ tasks[r].status \in {PENDING, BLOCKED} )
                      => tasks'[r].status = tasks[r].status]_vars

\* Release and Notify, the dependencies of Refund, are both COMPLETED and
\* Refund, marked blocked before, is still BLOCKED and never completed.
C18_Witness ==
    \E r, a, b \in DOMAIN tasks :
        /\ tasks[r].title = "Refund"
        /\ tasks[r].dependencies = <<a, b>>
        /\ tasks[a].status = COMPLETED
        /\ tasks[b].status = COMPLETED
        /\ tasks[r].status = BLOCKED
        /\ tasks[r].completed_at = None
        /\ can_start(tasks[r], tasks)

\* The step is a register call.
RegisterStep == result' = "None" /\ \E o \in StateObjs : Register(o)

\* C19 (registry map semantics): get(name) returns the State most recently
\* registered under the name (a later register of the same name replaces the
\* earlier one and raises nothing) and None for a name never registered;
\* writing to a mapping all_states returned (adding, replacing, removing
\* entries) changes neither what get returns nor what a later all_states
\* returns.
C19_RegistryMapSemantics ==
    /\ \A n \in StateNames : RegistryGet(registry, n) = None
    /\ [][/\ \A o \in StateObjs :
                Register(o) =>
                   /\ result' = "None"
                   /\ RegistryGet(registry', states[o].name) = Some(o)
                   /\ \A n \in StateNames \ {states[o].name} :
                         RegistryGet(registry', n) = RegistryGet(registry, n)
          /\ ~RegisterStep =>
                \A n \in StateNames :
                    RegistryGet(registry', n) = RegistryGet(registry, n)
          /\ (result' = "dict" /\ AllStates) =>
                \A n \in StateNames :
                    RegistryGet(returned'.mapping, n) = RegistryGet(registry, n)]_vars

\* The relisted "new_listing" (object 5) is registered; the caller of
\* all_states has put object 1 under "pending_inspection" and under
\* "new_listing" in the mapping it got, and get still answers None and
\* object 5.
C19_Witness ==
    /\ returned.kind = "all_states"
    /\ returned.mapping["pending_inspection"] = Some(1)
    /\ returned.mapping["new_listing"] = Some(1)
    /\ RegistryGet(registry, "pending_inspection") = None
    /\ RegistryGet(registry, "new_listing") = Some(5)

\* ------------------------------------------------------------------------
\* Properties of the state hierarchy (SpecState)
\* ------------------------------------------------------------------------
\* C20 (parent/child consistency): after any sequence of add_child calls
\* (the same child twice, a child that already has another parent), a state
\* c is in p.children iff c.parent is p, and no state occurs twice in a
\* children list.
C20_ParentChildConsistency ==
    \A p \in StateObjs :
        /\ \A c \in StateObjs :
              (c \in Range(states[p].children)) <=> (states[c].parent = Some(p))
        /\ \A j, k \in 1..Len(states[p].children) :
              states[p].children[j] = states[p].children[k] => j = k

\* The k-th ancestor of the object o (o itself for k = 0), None above the root.
RECURSIVE Up(_, _)
Up(o, k) ==
    IF k = 0 THEN Some(o)
    ELSE LET below == Up(o, k - 1)
         IN  IF below = None THEN None ELSE states[below[1]].parent

\* The chain of parent links of o reaches a state without parent.
AcyclicChain(o) == \E k \in 1..Len(states) : Up(o, k) = None

\* path lists the names along the parent chain of o from the root to o.
RootToSelf(path, o) ==
    /\ Len(path) >= 1
    /\ path[Len(path)] = states[o].name
    /\ \A i \in 1..Len(path) :
          /\ Up(o, Len(path) - i) # None
          /\ path[i] = states[Up(o, Len(path) - i)[1]].name
    /\ states[Up(o, Len(path) - 1)[1]].parent = None
    /\ \A i \in 1..(Len(path) - 1) :
          states[Up(o, Len(path) - i - 1)[1]].parent = Up(o, Len(path) - i)

\* C21 (get_full_path termination and order): for a state whose chain of
\* parent links is acyclic, get_full_path returns, and returns the names along
\* the chain from the root (the state without parent) to the state itself,
\* each the parent of the next; get_state_path returns that list for
\* current_state and the empty list when no current state is set.
C21_FullPath ==
    [][/\ \A o \in StateObjs :
             (GetFullPath(o) /\ AcyclicChain(o)) =>
                /\ result' = "list"
                /\ RootToSelf(returned'.list, o)
       /\ (GetStatePath /\ current_state = None) =>
             /\ result' = "list"
             /\ returned'.list = <<>>
       /\ (GetStatePath /\ current_state # None /\ AcyclicChain(current_state[1])) =>
             /\ result' = "list"
             /\ RootToSelf(returned'.list, current_state[1])]_vars

\* "cancelled" is the current state, a child of "under_contract", itself a
\* child of "new_listing", and the path returned lists the three from the
\* root down.
C21_Witness ==
    /\ current_state = Some(3)
    /\ states[3].parent = Some(2)
    /\ states[2].parent = Some(1)
    /\ states[1].parent = None
    /\ returned = [kind |-> "path",
                   list |-> <<"new_listing", "under_contract", "cancelled">>]

\* ------------------------------------------------------------------------
\* Properties of transition_to over histories and replaced states
\* ------------------------------------------------------------------------
\* The State the registry holds under the name of the current state.
RegisteredCurrent == RegistryGet(registry, CurrentName[1])

\* C22 (validation goes through the registry): when transition_to is called
\* with a current state set and a registered target, it is allowed iff the
\* target is in the allowed_transitions of the State the attached registry
\* maps the current state's name to at that moment, also after register has
\* replaced the State of that name.
C22_ValidationThroughRegistry ==
    [][\A n \in StateNames, notes \in Notes, auto \in BOOLEAN :
          ( /\ attached
            /\ current_state # None
            /\ registry[n] # None
            /\ RegisteredCurrent # None
            /\ TransitionTo(n, notes, auto) )
          => ( (result' = "True") <=>
                  (n \in states[RegisteredCurrent[1]].allowed_transitions) )]_vars

\* ------------------------------------------------------------------------
\* Properties of template expansion seen by a concurrent reader (SpecSteps)
\* ------------------------------------------------------------------------
\* The ids of the tasks the call in progress has created.
Batch == DOMAIN tasks \ call.before

\* C23 (template expansion is not atomic): between pass 1 and pass 2 of an
\* expansion every task of the batch is in tasks with empty dependencies, in
\* what a reader sees and in what to_dict writes, so get_pending_tasks
\* returns every task of the batch, also one whose template declares a
\* dependency on an uncompleted task of the batch; and after current_state
\* is set and before pass 1 the history entry and the new current_state are
\* there while no task of the batch exists.
C23_ExpansionNotAtomic ==
    /\ call.pc = "wire" =>
          /\ Cardinality(Batch)
                = Len(states[call.target_state[1]].task_templates)
          /\ \A id \in Batch :
                /\ tasks[id].dependencies = <<>>
                /\ tasks[id].status = PENDING
                /\ id \in get_pending_tasks(tasks)
                /\ Transaction_to_dict(current_state, state_history, tasks,
                      states).tasks[UuidStr(id)].dependencies = <<>>
    /\ call.pc = "expand" =>
          /\ Batch = {}
          /\ current_state = call.target_state
          /\ state_history[Len(state_history)].to_state
                = states[call.target_state[1]].name
          /\ Transaction_to_dict(current_state, state_history, tasks,
                states).current_state = Some(states[call.target_state[1]].name)

\* Between the two passes of entering "under_contract" a reader has called
\* get_pending_tasks and has got Repair, whose template depends on Inspect,
\* while Inspect is PENDING.
C23_Witness ==
    /\ call.pc = "wire"
    /\ returned.kind = "tasks"
    /\ \E r, i \in Batch :
          /\ tasks[r].title = "Repair"
          /\ tasks[i].title = "Inspect"
          /\ "Inspect" \in Range(states[call.target_state[1]].task_templates[1].dependencies)
          /\ tasks[i].status = PENDING
          /\ r \in returned.ids

\* ------------------------------------------------------------------------
\* Properties of expansion under reordering (SpecExpand)
\* ------------------------------------------------------------------------
\* A task named by the template it was made from.
TemplateKey(task) == <<task.title, task.description>>

\* The dependency edges among the tasks of tks that are not in before, each
\* end named by its template.
EdgesOf(tks, before) ==
    {e \in {<<id, d>> : id \in DOMAIN tks \ before, d \in DOMAIN tks} :
        e[2] \in Range(tks[e[1]].dependencies)}

EdgeKeys(tks, before) ==
    {<<TemplateKey(tks[e[1]]), TemplateKey(tks[e[2]])>> : e \in EdgesOf(tks, before)}

\* The orders of the template list L.
Reorderings(L) == {q \in [DOMAIN L -> Range(L)] : Range(q) = Range(L)}

C25_HistoryChain ==
    /\ (current_state = None) <=> (state_history = <<>>)
    /\ state_history # <<>> =>
          CurrentName = Some(state_history[Len(state_history)].to_state)
    /\ \A i \in 2..Len(state_history) :
          state_history[i].from_state = Some(state_history[i - 1].to_state)

\* Two transitions are recorded, the second leaving the state the first
\* entered for another one, and a further call has been rejected.
C25_Witness ==
    /\ Len(state_history) = 2
    /\ state_history[1].to_state # state_history[2].to_state
    /\ state_history[2].from_state = Some(state_history[1].to_state)
    /\ CurrentName = Some(state_history[2].to_state)
    /\ result = "False"

\* C26 (only permitted moves are recorded): with a registry that is not
\* modified after setup, every entry's to_state is a registered name and
\* every entry after the first has its to_state in the allowed_transitions
\* of the state its from_state names; once current_state has no allowed
\* transitions, current_state and state_history never change again.
C26_OnlyPermittedMoves ==
    /\ [](\A i \in 1..Len(state_history) :
             /\ RegistryGet(registry, state_history[i].to_state) # None
             /\ i > 1 =>
                   /\ state_history[i].from_state # None
                   /\ RegistryGet(registry, state_history[i].from_state[1]) # None
                   /\ state_history[i].to_state \in
                         states[registry[state_history[i].from_state[1]][1]]
                             .allowed_transitions)
    /\ [][( /\ current_state # None
            /\ states[current_state[1]].allowed_transitions = {} )
          => ( /\ current_state' = current_state
               /\ state_history' = state_history )]_vars

\* "cancelled", which allows no transition, was entered from
\* "under_contract", and a call to leave it has been rejected.
C26_Witness ==
    /\ Len(state_history) = 2
    /\ state_history[2].from_state = Some("under_contract")
    /\ state_history[2].to_state = "cancelled"
    /\ current_state = Some(3)
    /\ states[3].allowed_transitions = {}
    /\ result = "False"

\* The step is a transition_to call, whatever its exit.
TransitionToStep ==
    /\ result' \notin {"None", "id"}
    /\ \E n \in StateNames, notes \in Notes, auto \in BOOLEAN :
           TransitionTo(n, notes, auto)

\* C27 (frame of a transition): a transition_to call, with or without task
\* creation, leaves every task that was in tasks as it was (same status,
\* dependencies, due_date, completed_at; neither removed nor replaced) and
\* leaves the attached registry as it was: the registered names and every
\* State's allowed_transitions, task_templates, parent and children.
C27_TransitionFrame ==
    [][TransitionToStep =>
          /\ \A id \in DOMAIN tasks :
                /\ id \in DOMAIN tasks'
                /\ tasks'[id] = tasks[id]
          /\ \A n \in StateNames :
                RegistryGet(registry', n) = RegistryGet(registry, n)
          /\ \A o \in StateObjs :
                /\ states'[o].allowed_transitions = states[o].allowed_transitions
                /\ states'[o].task_templates = states[o].task_templates
                /\ states'[o].parent = states[o].parent
                /\ states'[o].children = states[o].children]_vars

\* A second state has been entered with task creation while the transaction
\* held a task added by hand that is COMPLETED; that task is still there
\* next to a task of the new batch.
C27_Witness ==
    /\ result = "True"
    /\ Len(state_history) = 2
    /\ \E a, b \in DOMAIN tasks :
          /\ a < b
          /\ tasks[a].title = "Call client"
          /\ tasks[a].status = COMPLETED
          /\ tasks[b].title # "Call client"
          /\ tasks[b].created_at >= tasks[a].created_at

\* ------------------------------------------------------------------------
\* Properties of task lifecycles (SpecTasks)
\* ------------------------------------------------------------------------
\* C28 (completed_at tracks completion): for tasks created PENDING and then
\* changed only by mark_in_progress, mark_completed and mark_blocked in any
\* order, completed_at is set iff the status is COMPLETED.
C28_CompletedAtTracksCompletion ==
    \A id \in DOMAIN tasks :
        (tasks[id].completed_at # None) <=> (tasks[id].status = COMPLETED)

\* C29 (no way back to PENDING): no status operation gives a task that has
\* left PENDING the status PENDING again; a BLOCKED task stays BLOCKED or
\* becomes COMPLETED, never IN_PROGRESS; so a task once marked blocked, in
\* progress or completed is not returned by get_pending_tasks any more, also
\* when all its dependencies are completed.
C29_NoWayBackToPending ==
    [][\A id \in DOMAIN tasks :
          /\ tasks[id].status # PENDING =>
                /\ tasks'[id].status # PENDING
                /\ id \notin get_pending_tasks(tasks')
                /\ (result' = "list" /\ GetPendingTasks) => id \notin returned'.ids
          /\ tasks[id].status = BLOCKED =>
                tasks'[id].status \in {BLOCKED, COMPLETED}]_vars

\* Refund was marked blocked; its dependencies Release and Notify are both
\* COMPLETED since, and get_pending_tasks has returned nothing.
C29_Witness ==
    /\ returned = [kind |-> "tasks", ids |-> {}]
    /\ \E r, a, b \in DOMAIN tasks :
          /\ tasks[r].title = "Refund"
          /\ tasks[r].dependencies = <<a, b>>
          /\ tasks[r].status = BLOCKED
          /\ tasks[a].status = COMPLETED
          /\ tasks[b].status = COMPLETED

\* ------------------------------------------------------------------------
\* Properties of the dependency graph (SpecExpand)
\* ------------------------------------------------------------------------
\* The ids reachable from the task id along dependencies in at most k steps
\* (k >= 1).
RECURSIVE DependsWithin(_, _)
DependsWithin(id, k) ==
    LET direct == Range(tasks[id].dependencies) \cap DOMAIN tasks
    IN  IF k = 1 THEN direct
        ELSE direct \cup UNION {DependsWithin(d, k - 1) : d \in direct}

\* C30 (acyclic task dependencies): whatever the registry holds, the edges
\* created by template expansion form an acyclic graph: no task depends on
\* itself, directly or through other tasks.
C30_AcyclicDependencies ==
    \A id \in DOMAIN tasks : id \notin DependsWithin(id, MaxTasks)

====
